---------------------------- MODULE Spec2Model ----------------------------
(***************************************************************************)
(* Model of the executable content of the documentation repository:        *)
(*   - the ExpressRelayIcon component (a constant SVG element),            *)
(*   - the Solidity helper mapRandomNumber of the Entropy best practices,  *)
(*   - the TON client snippet main(),                                      *)
(*   - the Solana instruction sample(ctx).                                 *)
(* Coordinates of the icon's path data are kept in hundredths of a user    *)
(* unit (the source writes at most two decimals), so "48.01" is 4801.      *)
(***************************************************************************)
EXTENDS Integers, Sequences, FiniteSets, TLC

VARIABLES
    rendered,     \* the invocations of ExpressRelayIcon so far: <<args, completion>>
    console,      \* the lines written to the global console, in order
    pc,           \* where main() stands: the await it is suspended at
    calls,        \* the SDK / network operations main() has issued, in order
    locals,       \* the names of main()'s constants that are bound so far
    error,        \* the reason main()'s promise was rejected with, or "none"
    mapCall,      \* the last call of mapRandomNumber: inputs and outcome
    sampleCall    \* the last execution of the Solana instruction sample(ctx)

vars == <<rendered, console, pc, calls, locals, error, mapCall, sampleCall>>

-----------------------------------------------------------------------------
(* Bounds of the model *)

\* how many invocations of the icon a behaviour holds
MaxCalls == 4

\* the width in bits the Solidity integer types are scaled to (int256,
\* uint256 and bytes32 are all of this one width)
Width == 4

\* the Solana clock and the publish times range over 0..MaxTime seconds
MaxTime == 32

-----------------------------------------------------------------------------
(* ExpressRelayIcon.tsx, lines 1-18: the icon component *)

\* the literal of the attribute d, one entry per path command:
\* <<command letter, its numbers in hundredths>>
PathD == <<
    <<"M", <<2400, 0>>>>,
    <<"C", <<1075, 0, 0, 1075, 0, 2400>>>>,
    <<"C", <<0, 2968, 198, 3490, 528, 3901>>>>,
    <<"L", <<1182, 3247>>>>,
    <<"L", <<1285, 3144>>>>,
    <<"L", <<1595, 2834>>>>,
    <<"L", <<1967, 3206>>>>,
    <<"L", <<1657, 3516>>>>,
    <<"L", <<1554, 3619>>>>,
    <<"L", <<900, 4273>>>>,
    <<"C", <<1311, 4603, 1833, 4801, 2401, 4801>>>>,
    <<"C", <<3726, 4801, 4801, 3726, 4801, 2401>>>>,
    <<"C", <<4801, 1076, 3725, 0, 2400, 0>>>>,
    <<"Z", <<>>>>,
    <<"M", <<1254, 2307>>>>,
    <<"C", <<1168, 2393, 1030, 2393, 944, 2307>>>>,
    <<"C", <<858, 2221, 858, 2083, 944, 1997>>>>,
    <<"L", <<1997, 944>>>>,
    <<"C", <<2083, 858, 2221, 858, 2307, 944>>>>,
    <<"C", <<2393, 1030, 2393, 1168, 2307, 1254>>>>,
    <<"L", <<1254, 2307>>>>,
    <<"Z", <<>>>>,
    <<"M", <<2400, 3391>>>>,
    <<"L", <<1409, 2400>>>>,
    <<"L", <<2400, 1409>>>>,
    <<"L", <<3391, 2400>>>>,
    <<"L", <<2400, 3391>>>>,
    <<"Z", <<>>>>,
    <<"M", <<3856, 2803>>>>,
    <<"L", <<2803, 3856>>>>,
    <<"C", <<2717, 3942, 2579, 3942, 2493, 3856>>>>,
    <<"C", <<2407, 3770, 2407, 3632, 2493, 3546>>>>,
    <<"L", <<3546, 2493>>>>,
    <<"C", <<3632, 2407, 3770, 2407, 3856, 2493>>>>,
    <<"C", <<3942, 2579, 3942, 2717, 3856, 2803>>>>,
    <<"Z", <<>>>>
>>

Return(v) == [kind |-> "return", value |-> v]

Throw(e) == [kind |-> "throw", value |-> e]

\* viewBox="0 0 48 48": min-x, min-y, width and height of the viewport, in
\* the hundredths the path data is kept in
ViewBox == [minX |-> 0, minY |-> 0, width |-> 48 * 100, height |-> 48 * 100]

\* mutant: the final close-path command of the outline is lost
PathElement_Unclosed ==
    [tag |-> "path",
     attrs |-> [d |-> SubSeq(PathD, 1, Len(PathD) - 1), fill |-> "#E6DAFE"],
     children |-> <<>>]

\* <path d=... fill="#E6DAFE" />
PathElement ==
    [tag |-> "path",
     attrs |-> [d |-> PathD, fill |-> "#E6DAFE"],
     children |-> <<>>]

\* <svg width="48" height="48" viewBox="0 0 48 48" fill="none" xmlns=...>
SvgElement ==
    [tag |-> "svg",
     attrs |-> [width |-> "48", height |-> "48", viewBox |-> "0 0 48 48",
                fill |-> "none", xmlns |-> "http://www.w3.org/2000/svg"],
     children |-> <<PathElement>>]

\* mutant: the 24-unit size of a sibling icon
ExpressRelayIcon_Width24(args) ==
    Return([SvgElement EXCEPT !.attrs.width = "24"])

\* mutant: the path is drawn with an outline as well
ExpressRelayIcon_Stroke(args) ==
    Return([SvgElement EXCEPT !.children =
              <<[tag |-> "path",
                 attrs |-> [d |-> PathD, fill |-> "#E6DAFE",
                            stroke |-> "#E6DAFE"],
                 children |-> <<>>]>>])

\* mutant: a module-level counter gives every render its own id
ExpressRelayIcon_Counter(args) ==
    Return([SvgElement EXCEPT !.attrs =
              [width |-> "48", height |-> "48", viewBox |-> "0 0 48 48",
               fill |-> "none", xmlns |-> "http://www.w3.org/2000/svg",
               id |-> Len(rendered)]])

\* mutant: ({ width }) => ..., which throws when called with no argument
ExpressRelayIcon_Destructure(args) ==
    IF args = <<>> THEN Throw("TypeError") ELSE Return(SvgElement)

\* mutant: (props) => <svg {...props} ...>, the width taken from the props
ExpressRelayIcon_Props(args) ==
    IF args # <<>> /\ <<"width", "24">> \in args[1]
    THEN Return([SvgElement EXCEPT !.attrs.width = "24"])
    ELSE Return(SvgElement)

\* const ExpressRelayIcon = () => { return (<svg ...>...</svg>); };
\* The arrow function declares no parameter: whatever arguments the caller
\* passes are dropped, and no name outside the function is read.
ExpressRelayIcon(args) == Return(SvgElement)

\* the argument lists a caller passes: none (a plain call), or one props
\* object (what the rendering framework passes to a component)
\* (an object is the set of its <<key, value>> entries)
ArgLists ==
    { <<>>, <<{}>>, <<{<<"width", "24">>}>>, <<{<<"fill", "red">>}>> }

\* mutant: the component logs each render
Render_Logs ==
    /\ Len(rendered) < MaxCalls
    /\ \E args \in ArgLists :
         rendered' = Append(rendered,
                            [args |-> args, result |-> ExpressRelayIcon(args)])
    /\ console' = Append(console, "render")
    /\ UNCHANGED <<pc, calls, locals, error, mapCall, sampleCall>>

\* one invocation of the component; its completion goes to the caller
Render ==
    /\ Len(rendered) < MaxCalls
    /\ \E args \in ArgLists :
         rendered' = Append(rendered,
                            [args |-> args, result |-> ExpressRelayIcon(args)])
    /\ UNCHANGED <<console, pc, calls, locals, error, mapCall, sampleCall>>

-----------------------------------------------------------------------------
(* ExpressRelayIcon.tsx, lines 135-195: the TON client snippet *)

\* what hermesClient.getLatestPriceUpdates can resolve to: the field parsed
\* is optional, and both lists may come back empty
HermesResponses ==
    [parsed : {"undefined", "empty", "present"}, data : {"empty", "present"}]

Log(line) == console' = Append(console, line)

Issue(ops) == calls' = calls \o ops

Bind(names) == locals' = locals \cup names

\* an awaited promise rejects, or the synchronous code after it throws:
\* main()'s promise is rejected and nothing further of main() runs
Reject(e) ==
    /\ pc' = "rejected"
    /\ error' = e
    /\ UNCHANGED <<console, calls, locals>>

\* lines 147-157: main() up to its first await
MainStart ==
    /\ UNCHANGED <<rendered, mapCall, sampleCall>>
    /\ pc = "start"
    /\ Issue(<<"TonClient", "PythContract", "getCurrentGuardianSetIndex">>)
    /\ Bind({"client", "contractAddress", "contract"})
    /\ pc' = "await getCurrentGuardianSetIndex"
    /\ UNCHANGED <<console, error>>

\* lines 157-160
MainGuardianSetIndex ==
    /\ UNCHANGED <<rendered, mapCall, sampleCall>>
    /\ pc = "await getCurrentGuardianSetIndex"
    /\ \/ /\ Log("Guardian Set Index:")
          /\ Bind({"guardianSetIndex"})
          /\ Issue(<<"getPriceUnsafe">>)
          /\ pc' = "await getPriceUnsafe"
          /\ UNCHANGED error
       \/ Reject("getCurrentGuardianSetIndex failed")

\* lines 160-169
MainPriceUnsafe ==
    /\ UNCHANGED <<rendered, mapCall, sampleCall>>
    /\ pc = "await getPriceUnsafe"
    /\ \/ /\ Log("BTC Price from TON contract:")
          /\ Bind({"price", "hermesEndpoint", "hermesClient", "priceIds"})
          /\ Issue(<<"HermesClient", "getLatestPriceUpdates">>)
          /\ pc' = "await getLatestPriceUpdates"
          /\ UNCHANGED error
       \/ Reject("getPriceUnsafe failed")

\* lines 166-175: latestPriceUpdates.parsed?.[0].price throws on an empty
\* list (the chain is cut short only when parsed itself is missing), and
\* Buffer.from(undefined, "hex") throws when binary.data is empty
MainLatestPriceUpdates ==
    /\ UNCHANGED <<rendered, mapCall, sampleCall>>
    /\ pc = "await getLatestPriceUpdates"
    /\ \/ \E r \in HermesResponses :
            IF r.parsed = "empty"
            THEN Reject("TypeError: parsed[0] is undefined")
            ELSE IF r.data = "empty"
            THEN /\ Log("Hermes BTC price:")
                 /\ Bind({"latestPriceUpdates"})
                 /\ pc' = "rejected"
                 /\ error' = "TypeError: Buffer.from(undefined)"
                 /\ UNCHANGED calls
            ELSE /\ console' = console \o <<"Hermes BTC price:", "Update data:">>
                 /\ Bind({"latestPriceUpdates", "updateData"})
                 /\ Issue(<<"getUpdateFee">>)
                 /\ pc' = "await getUpdateFee"
                 /\ UNCHANGED error
       \/ Reject("getLatestPriceUpdates failed")

\* lines 175-181
MainUpdateFee ==
    /\ UNCHANGED <<rendered, mapCall, sampleCall>>
    /\ pc = "await getUpdateFee"
    /\ \/ /\ Log("Update fee:")
          /\ Bind({"updateFee", "totalFee", "mnemonic"})
          /\ Issue(<<"calculateUpdatePriceFeedsFee", "mnemonicToPrivateKey">>)
          /\ pc' = "await mnemonicToPrivateKey"
          /\ UNCHANGED error
       \/ Reject("getUpdateFee failed")

\* lines 181-191
MainPrivateKey ==
    /\ UNCHANGED <<rendered, mapCall, sampleCall>>
    /\ pc = "await mnemonicToPrivateKey"
    /\ \/ /\ Bind({"key", "wallet", "provider"})
          /\ Issue(<<"WalletContractV4", "sendUpdatePriceFeeds">>)
          /\ pc' = "await sendUpdatePriceFeeds"
          /\ UNCHANGED <<console, error>>
       \/ Reject("mnemonicToPrivateKey failed")

\* mutant: the send is not awaited, so the success line is written whether
\* or not the send goes through
MainSendUpdatePriceFeeds_Unawaited ==
    /\ UNCHANGED <<rendered, mapCall, sampleCall>>
    /\ pc = "await sendUpdatePriceFeeds"
    /\ Log("Price feeds updated successfully.")
    /\ \/ pc' = "fulfilled" /\ UNCHANGED error
       \/ pc' = "rejected" /\ error' = "sendUpdatePriceFeeds failed"
    /\ UNCHANGED <<calls, locals>>

\* lines 187-193
MainSendUpdatePriceFeeds ==
    /\ UNCHANGED <<rendered, mapCall, sampleCall>>
    /\ pc = "await sendUpdatePriceFeeds"
    /\ \/ /\ Log("Price feeds updated successfully.")
          /\ pc' = "fulfilled"
          /\ UNCHANGED <<calls, locals, error>>
       \/ Reject("sendUpdatePriceFeeds failed")

\* line 194: main().catch(console.error)
MainCatch ==
    /\ UNCHANGED <<rendered, mapCall, sampleCall>>
    /\ pc = "rejected"
    /\ Log(error)
    /\ pc' = "caught"
    /\ UNCHANGED <<calls, locals, error>>

-----------------------------------------------------------------------------
(* ExpressRelayIcon.tsx, lines 42-51: mapRandomNumber (Solidity) *)

IntMin == -(2 ^ (Width - 1))

IntMax == 2 ^ (Width - 1) - 1

UintMax == 2 ^ Width - 1

\* uint256(x) of a signed x: the same bits read as unsigned
ToUint(x) == x % (2 ^ Width)

\* int256(u) of an unsigned u: the same bits read as two's complement
ToInt(u) == IF u > IntMax THEN u - 2 ^ Width ELSE u

\* the result of a signed +, - whose exact value is x: the compiler either
\* checks it (a Panic on overflow, Solidity from 0.8 on) or wraps it
SignedArith(x, checked) ==
    IF x \in IntMin..IntMax THEN Return(x)
    ELSE IF checked THEN Throw("Panic(0x11)")
    ELSE Return(ToInt(ToUint(x)))

\* function mapRandomNumber(bytes32 randomNumber, int256 minRange,
\*                          int256 maxRange) internal returns (int256)
\* checked is the arithmetic the contract is compiled with.
mapRandomNumber(randomNumber, minRange, maxRange, checked) ==
    LET diff == SignedArith(maxRange - minRange, checked) IN
    IF diff.kind = "throw" THEN diff ELSE
    LET size == SignedArith(diff.value + 1, checked) IN
    IF size.kind = "throw" THEN size ELSE
    LET range == ToUint(size.value) IN
    IF range = 0 THEN Throw("Panic(0x12)") ELSE
    SignedArith(minRange + ToInt(randomNumber % range), checked)

NoCall == [kind |-> "none", value |-> 0]

\* the inputs of a call that has not run yet: any values of the declared
\* types, under either arithmetic
MapInputs ==
    [randomNumber : 0..UintMax, minRange : IntMin..IntMax,
     maxRange : IntMin..IntMax, checked : BOOLEAN, result : {NoCall}]

\* the call of mapRandomNumber on the inputs drawn
CallMapRandomNumber ==
    /\ mapCall.result = NoCall
    /\ mapCall' = [mapCall EXCEPT !.result =
                     mapRandomNumber(mapCall.randomNumber, mapCall.minRange,
                                     mapCall.maxRange, mapCall.checked)]
    /\ UNCHANGED <<rendered, console, pc, calls, locals, error, sampleCall>>

-----------------------------------------------------------------------------
(* solana.mdx, lines 61-76: the instruction sample(ctx) *)

\* line 65: let maximum_age: u64 = 30;
maximum_age == 30

\* line 68: the id of the BTC/USD feed
BTC_USD_FEED_ID ==
    "0xe62df6c8b4a85fe1a67db44dc12de5db330f7ac66b72dc658afedf0f4a415b43"

\* the feeds a price update account may hold: BTC/USD and another one
FeedIds ==
    { BTC_USD_FEED_ID,
      "0xef0d8b6fda2ceba41da15d4095d1da392a0d2f8ed0c6c7bc0f4cfac8c280b56d" }

\* price_update.get_price_no_older_than(&clock, maximum_age, &feed_id), as
\* lines 64 and 66 state it: it fails if the price update is for a different
\* price feed, and if it is more than maximum_age seconds old
get_price_no_older_than(price_update, clock, max_age, feed_id) ==
    IF price_update.feed_id # feed_id THEN Throw("MismatchedFeedId")
    ELSE IF clock - price_update.publish_time > max_age THEN Throw("PriceTooOld")
    ELSE Return("price")

\* mutant: the price is read with get_price_unchecked(&feed_id), which
\* checks the feed and not the age
sample_Unchecked(price_update, clock) ==
    IF clock.kind = "throw"
    THEN [result |-> "Err", err |-> "UnsupportedSysvar", logs |-> <<>>]
    ELSE IF price_update.feed_id # BTC_USD_FEED_ID
    THEN [result |-> "Err", err |-> "MismatchedFeedId", logs |-> <<>>]
    ELSE [result |-> "Ok", err |-> "", logs |-> <<"The price is">>]

\* pub fn sample(ctx: Context<Sample>) -> Result<()>
\* clock is what Clock::get() returns (on a failure its value is not read);
\* each ? returns the error at once
sample(price_update, clock) ==
    IF clock.kind = "throw"
    THEN [result |-> "Err", err |-> "UnsupportedSysvar", logs |-> <<>>]
    ELSE LET price == get_price_no_older_than(price_update, clock.value,
                                              maximum_age, BTC_USD_FEED_ID)
         IN IF price.kind = "throw"
            THEN [result |-> "Err", err |-> price.value, logs |-> <<>>]
            ELSE [result |-> "Ok", err |-> "", logs |-> <<"The price is">>]

NotRun == [result |-> "none", err |-> "", logs |-> <<>>]

\* the accounts and the clock of an execution that has not run yet: any
\* verified price update account, any clock (or none: Clock::get() fails)
SampleInputs ==
    [price_update : [feed_id : FeedIds, publish_time : 0..MaxTime],
     clock : [kind : {"return", "throw"}, value : 0..MaxTime],
     outcome : {NotRun}]

\* the execution of the instruction on the accounts drawn
CallSample ==
    /\ sampleCall.outcome = NotRun
    /\ sampleCall' = [sampleCall EXCEPT !.outcome =
                        sample(sampleCall.price_update, sampleCall.clock)]
    /\ UNCHANGED <<rendered, console, pc, calls, locals, error, mapCall>>

-----------------------------------------------------------------------------
(* The specifications *)

InitFile ==
    /\ rendered = <<>>
    /\ console = <<>>
    /\ pc = "start"
    /\ calls = <<>>
    /\ locals = {}
    /\ error = "none"

Init ==
    /\ InitFile
    /\ mapCall = [randomNumber |-> 0, minRange |-> 0, maxRange |-> 0,
                  checked |-> FALSE, result |-> NoCall]
    /\ sampleCall = [price_update |-> [feed_id |-> BTC_USD_FEED_ID,
                                       publish_time |-> 0],
                     clock |-> Return(0), outcome |-> NotRun]

\* the programs of ExpressRelayIcon.tsx that share the JavaScript runtime:
\* the icon component and the TON client's main()
Next ==
    \/ Render
    \/ MainStart
    \/ MainGuardianSetIndex
    \/ MainPriceUnsafe
    \/ MainLatestPriceUpdates
    \/ MainUpdateFee
    \/ MainPrivateKey
    \/ MainSendUpdatePriceFeeds
    \/ MainCatch

Spec == Init /\ [][Next]_vars

\* the Solidity helper, called once on each input
InitMap ==
    /\ InitFile
    /\ mapCall \in MapInputs
    /\ sampleCall = [price_update |-> [feed_id |-> BTC_USD_FEED_ID,
                                       publish_time |-> 0],
                     clock |-> Return(0), outcome |-> NotRun]

NextMap == CallMapRandomNumber

SpecMap == InitMap /\ [][NextMap]_vars

\* the Solana instruction, executed once on each account and clock
InitSample ==
    /\ InitFile
    /\ mapCall = [randomNumber |-> 0, minRange |-> 0, maxRange |-> 0,
                  checked |-> FALSE, result |-> NoCall]
    /\ sampleCall \in SampleInputs

NextSample == CallSample

SpecSample == InitSample /\ [][NextSample]_vars

-----------------------------------------------------------------------------
(* Properties of the icon component *)

Invocations == 1..Len(rendered)

\* the invocations made with no argument
PlainCalls == { i \in Invocations : rendered[i].args = <<>> }

\* C1: every invocation of ExpressRelayIcon with no arguments returns a root
\* svg element whose width is 48, whose height is 48 and whose viewBox is
\* "0 0 48 48".
C1_RootSize ==
    \A i \in PlainCalls :
        /\ rendered[i].result.kind = "return"
        /\ rendered[i].result.value.tag = "svg"
        /\ rendered[i].result.value.attrs.width = "48"
        /\ rendered[i].result.value.attrs.height = "48"
        /\ rendered[i].result.value.attrs.viewBox = "0 0 48 48"

\* two plain invocations have returned
C1_Witness ==
    /\ Cardinality(PlainCalls) >= 2
    /\ \A i \in PlainCalls : rendered[i].result.kind = "return"

\* C2: the returned graphic has exactly one child element, the child is a
\* path element, its fill is "#E6DAFE" and it carries no stroke attribute.
C2_OnePath ==
    \A i \in PlainCalls :
        /\ rendered[i].result.kind = "return"
        /\ LET svg == rendered[i].result.value IN
           /\ Len(svg.children) = 1
           /\ svg.children[1].tag = "path"
           /\ svg.children[1].attrs.fill = "#E6DAFE"
           /\ "stroke" \notin DOMAIN svg.children[1].attrs

\* a plain invocation has returned a graphic that has a child
C2_Witness ==
    \E i \in PlainCalls :
        /\ rendered[i].result.kind = "return"
        /\ Len(rendered[i].result.value.children) > 0

\* the path data of a returned graphic
PathDataOf(r) == r.value.children[1].attrs.d

\* C3: in any sequence of invocations of the render operation every two
\* outputs are structurally equal, and the path data d is the same in all
\* of them: no invocation changes what a later one returns.
C3_Deterministic ==
    \A i, j \in PlainCalls :
        /\ rendered[i].result = rendered[j].result
        /\ rendered[i].result.kind = "return"
        /\ PathDataOf(rendered[i].result) = PathDataOf(rendered[j].result)

\* three plain invocations in a row, with main() running in between
C3_Witness ==
    /\ Cardinality(PlainCalls) >= 3
    /\ pc # "start"

\* C4: the render operation has no error outcome: every invocation, in any
\* state and after any number of earlier ones, returns the graphic.
C4_NeverThrows ==
    \A i \in Invocations :
        /\ rendered[i].result.kind = "return"
        /\ rendered[i].result.value.tag = "svg"

\* invocations with and without arguments have completed, the last of them
\* after main() failed
C4_Witness ==
    /\ Len(rendered) >= 3
    /\ PlainCalls # {}
    /\ PlainCalls # Invocations
    /\ pc = "caught"

\* C5: an invocation of the render operation leaves every piece of state
\* outside its return value unchanged: the console, and main()'s position,
\* operations, bindings and error, and the other programs' calls.
C5_NoSideEffects ==
    [][rendered' # rendered =>
         UNCHANGED <<console, pc, calls, locals, error, mapCall, sampleCall>>]_vars

\* the icon has been rendered while main() was under way, with lines on the
\* console
C5_Witness ==
    /\ Len(rendered) >= 2
    /\ Len(console) >= 2
    /\ pc = "await getUpdateFee"

\* C6: the output of the render operation is the same whatever arguments
\* the caller passes: two invocations with different arguments return equal
\* graphics.
C6_IgnoresArguments ==
    \A i, j \in Invocations :
        rendered[i].args # rendered[j].args =>
            rendered[i].result = rendered[j].result

\* the component has been invoked with no argument, with empty props and
\* with props that name a width
C6_Witness ==
    /\ \E i \in Invocations : rendered[i].args = <<>>
    /\ \E i \in Invocations : rendered[i].args = <<{}>>
    /\ \E i \in Invocations : rendered[i].args = <<{<<"width", "24">>}>>

\* the letters of the path commands
CommandAt(d, k) == d[k][1]

\* a path made of M, L, C and Z only, whose subpaths each start with M and
\* end with Z: the first command is M, the last is Z, and M stands exactly
\* where a subpath starts (at the beginning, or right after a Z)
ClosedOutline(d) ==
    /\ Len(d) > 0
    /\ \A k \in 1..Len(d) : CommandAt(d, k) \in {"M", "L", "C", "Z"}
    /\ \A k \in 1..Len(d) :
         CommandAt(d, k) = "M" <=> (k = 1 \/ CommandAt(d, k - 1) = "Z")
    /\ CommandAt(d, Len(d)) = "Z"

\* C9: the icon's path data consists only of move, line, cubic-curve and
\* close-path commands and forms a closed outline: every subpath begins
\* with a move and ends with a close-path, with no drawing command outside
\* a subpath and none after the final close.
C9_ClosedOutline ==
    \A i \in Invocations :
        /\ rendered[i].result.kind = "return"
        /\ Len(rendered[i].result.value.children) = 1
        /\ ClosedOutline(PathDataOf(rendered[i].result))

\* a graphic has been returned whose path has several subpaths and curves
C9_Witness ==
    \E i \in Invocations :
        /\ rendered[i].result.kind = "return"
        /\ LET d == PathDataOf(rendered[i].result) IN
           /\ Cardinality({ k \in 1..Len(d) : CommandAt(d, k) = "Z" }) >= 2
           /\ \E k \in 1..Len(d) : CommandAt(d, k) = "C"

\* the numbers of the k-th command of d: x at the odd places, y at the even
ArgsAt(d, k) == d[k][2]

InViewBox(x, y) ==
    /\ ViewBox.minX <= x /\ x <= ViewBox.minX + ViewBox.width
    /\ ViewBox.minY <= y /\ y <= ViewBox.minY + ViewBox.height

\* C11: every coordinate of the icon's path data (every x and y of its
\* move, line and cubic-curve commands, control points included) lies
\* within the 48x48 viewport: 0 <= x <= 48 and 0 <= y <= 48.
C11_WithinViewBox ==
    \A i \in Invocations :
        rendered[i].result.kind = "return" =>
            LET d == PathDataOf(rendered[i].result) IN
            \A k \in 1..Len(d) :
                \A n \in 1..(Len(ArgsAt(d, k)) \div 2) :
                    InViewBox(ArgsAt(d, k)[2 * n - 1], ArgsAt(d, k)[2 * n])

-----------------------------------------------------------------------------
(* Properties of mapRandomNumber *)

\* C7: for every randomNumber and every pair of bounds with
\* minRange <= maxRange, mapRandomNumber returns a value r with
\* minRange <= r <= maxRange.
C7_InRange ==
    (mapCall.result # NoCall /\ mapCall.minRange <= mapCall.maxRange) =>
        /\ mapCall.result.kind = "return"
        /\ mapCall.minRange <= mapCall.result.value
        /\ mapCall.result.value <= mapCall.maxRange

-----------------------------------------------------------------------------
(* Properties of the Solana instruction *)

SampleRan == sampleCall.outcome # NotRun

\* the price update is more than 30 seconds older than the clock
Stale ==
    /\ sampleCall.clock.kind = "return"
    /\ sampleCall.clock.value - sampleCall.price_update.publish_time > 30

WrongFeed == sampleCall.price_update.feed_id # BTC_USD_FEED_ID

Failed ==
    /\ sampleCall.outcome.result = "Err"
    /\ sampleCall.outcome.logs = <<>>

\* C8: sample(ctx) fails, and logs no price, whenever the price update is
\* more than 30 seconds older than the current clock and whenever it is for
\* a feed other than BTC/USD; it returns Ok only when both checks pass.
C8_Validated ==
    SampleRan =>
        /\ Stale => Failed
        /\ WrongFeed => Failed
        /\ sampleCall.outcome.result = "Ok" => (~Stale /\ ~WrongFeed)

\* the instruction has run on a BTC/USD update 31 seconds old and failed
C8_Witness ==
    /\ SampleRan
    /\ ~WrongFeed
    /\ sampleCall.clock.kind = "return"
    /\ sampleCall.clock.value - sampleCall.price_update.publish_time = 31
    /\ sampleCall.outcome.err = "PriceTooOld"

-----------------------------------------------------------------------------
(* Properties of the TON client's main() *)

\* the operations the guide lists, in the order it lists them
DocumentedOrder ==
    <<"TonClient", "PythContract", "getCurrentGuardianSetIndex",
      "getPriceUnsafe", "getLatestPriceUpdates", "getUpdateFee",
      "sendUpdatePriceFeeds">>

IsDocumented(op) == \E k \in 1..Len(DocumentedOrder) : DocumentedOrder[k] = op

IsPrefix(s, t) == Len(s) <= Len(t) /\ SubSeq(t, 1, Len(s)) = s

Issued(op) == \E k \in 1..Len(calls) : calls[k] = op

Logged(line) == \E k \in 1..Len(console) : console[k] = line

\* C10: main() performs its steps in the documented order; the update is
\* sent at most once and never before the update data is prepared and the
\* fee computed; "Price feeds updated successfully." is logged only after
\* the send has completed and never when an earlier step failed.
C10_DocumentedOrder ==
    /\ IsPrefix(SelectSeq(calls, IsDocumented), DocumentedOrder)
    /\ Cardinality({ k \in 1..Len(calls) : calls[k] = "sendUpdatePriceFeeds" }) <= 1
    /\ Issued("getUpdateFee") => "updateData" \in locals
    /\ Issued("sendUpdatePriceFeeds") => {"updateData", "updateFee", "totalFee"} \subseteq locals
    /\ Logged("Price feeds updated successfully.") =>
         /\ pc = "fulfilled"
         /\ error = "none"
         /\ Issued("sendUpdatePriceFeeds")
         /\ console[Len(console)] = "Price feeds updated successfully."

\* main() ran to its end and logged the success
C10_Witness ==
    /\ pc = "fulfilled"
    /\ Logged("Price feeds updated successfully.")

=============================================================================
